---- MODULE Spec2Model ----
(***************************************************************************)
(* Step-identifier ordering, progressive disclosure, session navigation    *)
(* and guide adaptation of the step-guide backend.                         *)
(*                                                                         *)
(* A step identifier is a Python str.  It is modelled as the sequence of   *)
(* its characters, a character being its rank in the alphabet              *)
(* '0'..'9','a'..'z' (0..9 digits, 10..35 letters), which keeps the order  *)
(* of the code points, so that "1a" is <<1, 10>> and "10" is <<1, 0>>.     *)
(***************************************************************************)
EXTENDS Integers, Sequences, FiniteSets, TLC

--------------------------------------------------------------------------
(* Bounds of the model *)

\* generator calls that return a proposal list, over one run
MaxAdaptations == 2
\* times the completion timestamp of one session is written, over one run
MaxStamps == 2
\* generator calls that return a proposal list, over one run in which every
\* report is on the alternative the report before it created
MaxNesting == 3
\* generator calls that return more proposals than there are letters, over
\* one run
MaxLongAnswers == 1
\* generator calls that return a proposal list, over one run in which the
\* status of the session is updated
MaxReports == 1

--------------------------------------------------------------------------
(* Characters and strings *)

IsDigit(c) == c \in 0..9
IsLetter(c) == c \in 10..35

\* Python's None where an identifier is expected
NoId == <<>>

RECURSIVE DigitPrefixLen(_)
\* length of the longest prefix of s made of digits: the \d+ of the pattern
DigitPrefixLen(s) ==
    IF s = <<>> \/ ~IsDigit(Head(s)) THEN 0 ELSE 1 + DigitPrefixLen(Tail(s))

\* re.match(r"^(\d+)([a-z]?)$", s) succeeds
MatchesPattern(s) ==
    LET d == DigitPrefixLen(s)
    IN  /\ d >= 1
        /\ \/ Len(s) = d
           \/ Len(s) = d + 1 /\ IsLetter(s[d + 1])

RECURSIVE IntOf(_)
\* int(num) of a string of digits
IntOf(ds) ==
    IF ds = <<>> THEN 0 ELSE 10 * IntOf(SubSeq(ds, 1, Len(ds) - 1)) + ds[Len(ds)]

RECURSIVE StrOf(_)
\* str(n) of a non-negative int
StrOf(n) == IF n < 10 THEN <<n>> ELSE StrOf(n \div 10) \o <<n % 10>>

RECURSIVE StrLess(_, _)
\* s < t of two Python strings (lexicographic by code point)
StrLess(s, t) ==
    IF t = <<>> THEN FALSE
    ELSE IF s = <<>> THEN TRUE
    ELSE IF Head(s) # Head(t) THEN Head(s) < Head(t)
    ELSE StrLess(Tail(s), Tail(t))

--------------------------------------------------------------------------
(* utils/sorting.py, utils/validation.py *)

\* the numeric part given to an identifier that does not match the pattern
FallbackNumber == 999999

natural_sort_key(identifier) ==
    IF MatchesPattern(identifier)
    THEN LET d == DigitPrefixLen(identifier)
         IN  <<IntOf(SubSeq(identifier, 1, d)), SubSeq(identifier, d + 1, Len(identifier))>>
    ELSE <<FallbackNumber, identifier>>

\* k1 < k2 of two (int, str) tuples
KeyLess(k1, k2) ==
    \/ k1[1] < k2[1]
    \/ k1[1] = k2[1] /\ StrLess(k1[2], k2[2])

is_identifier_before(id1, id2) ==
    KeyLess(natural_sort_key(id1), natural_sort_key(id2))

RECURSIVE InsertByKey(_, _)
\* a <<key, identifier>> pair put into the sorted list of pairs after every
\* pair whose key is not greater
InsertByKey(x, sorted) ==
    IF sorted = <<>> THEN <<x>>
    ELSE IF KeyLess(x[1], Head(sorted)[1]) THEN <<x>> \o sorted
    ELSE <<Head(sorted)>> \o InsertByKey(x, Tail(sorted))

RECURSIVE SortPairs(_, _)
\* the first n pairs, sorted by key, pairs of equal keys in their given order
SortPairs(pairs, n) ==
    IF n = 0 THEN <<>> ELSE InsertByKey(pairs[n], SortPairs(pairs, n - 1))

\* sorted(identifiers, key=natural_sort_key): a stable sort
sort_step_identifiers(identifiers) ==
    LET pairs == [ i \in 1..Len(identifiers) |->
                     <<natural_sort_key(identifiers[i]), identifiers[i]>> ]
        sorted == SortPairs(pairs, Len(pairs))
    IN  [ i \in 1..Len(sorted) |-> sorted[i][2] ]

RECURSIVE IndexFrom(_, _, _)
IndexFrom(x, list, i) ==
    IF i > Len(list) THEN 0
    ELSE IF list[i] = x THEN i
    ELSE IndexFrom(x, list, i + 1)

\* list.index(x): the first position of x, 0 for ValueError
IndexOf(x, list) == IndexFrom(x, list, 1)

\* get_next_identifier with the bound of the last position taken one too low
get_next_identifier_short(current, all_identifiers) ==
    LET sorted_ids == sort_step_identifiers(all_identifiers)
        current_idx == IndexOf(current, sorted_ids)
    IN  IF current_idx # 0 /\ current_idx < Len(sorted_ids) - 1
        THEN sorted_ids[current_idx + 1]
        ELSE NoId

\* get_next_identifier with the position -1 taken for a current that is not
\* in the list, so that the first element is its next
get_next_identifier_absent(current, all_identifiers) ==
    LET sorted_ids == sort_step_identifiers(all_identifiers)
        current_idx == IndexOf(current, sorted_ids)
    IN  IF current_idx < Len(sorted_ids)
        THEN sorted_ids[current_idx + 1]
        ELSE NoId

get_next_identifier(current, all_identifiers) ==
    LET sorted_ids == sort_step_identifiers(all_identifiers)
        current_idx == IndexOf(current, sorted_ids)
    IN  IF current_idx # 0 /\ current_idx < Len(sorted_ids)
        THEN sorted_ids[current_idx + 1]
        ELSE NoId

\* get_previous_identifier without the test of the first position, where
\* Python's index -1 is the last element
get_previous_identifier_wraps(current, all_identifiers) ==
    LET sorted_ids == sort_step_identifiers(all_identifiers)
        current_idx == IndexOf(current, sorted_ids)
    IN  IF current_idx > 1 THEN sorted_ids[current_idx - 1]
        ELSE IF current_idx = 1 THEN sorted_ids[Len(sorted_ids)]
        ELSE NoId

get_previous_identifier(current, all_identifiers) ==
    LET sorted_ids == sort_step_identifiers(all_identifiers)
        current_idx == IndexOf(current, sorted_ids)
    IN  IF current_idx > 1 THEN sorted_ids[current_idx - 1] ELSE NoId

\* TRUE when validate_step_identifier returns, FALSE when it raises
validate_step_identifier(identifier) ==
    identifier # <<>> /\ MatchesPattern(identifier)

--------------------------------------------------------------------------
(* The guide structure: guide_data["sections"], a list of sections, each   *)
(* with a list of steps.                                                   *)

\* step counts of the sections of the generated guide
GuideShape == <<2, 1>>

\* steps in the sections before section si of the generated guide
RECURSIVE StepsBefore(_)
StepsBefore(si) == IF si <= 1 THEN 0 ELSE StepsBefore(si - 1) + GuideShape[si - 1]

\* a step as _save_guide_to_database stores it: step_index is a counter over
\* the whole guide, from 0, and step_identifier is str(step_index)
GeneratedStep(n) ==
    [ step_identifier            |-> StrOf(n),
      step_index                 |-> n,
      title                      |-> 0,
      description                |-> n + 1,
      completion_criteria        |-> n + 1,
      assistance_hints           |-> n + 1,
      estimated_duration_minutes |-> n + 1,
      status                     |-> "active",
      blocked_reason             |-> "none",
      replaces_step_identifier   |-> NoId ]

\* guide_data["sections"] after _save_guide_to_database
GeneratedGuide ==
    [ si \in 1..Len(GuideShape) |->
        [ section_id    |-> si,
          section_order |-> si - 1,
          steps         |-> [ i \in 1..GuideShape[si] |->
                                GeneratedStep(StepsBefore(si) + i - 1) ] ] ]

RECURSIVE Flatten(_)
\* the steps of all sections, in document order
Flatten(sections) ==
    IF sections = <<>> THEN <<>>
    ELSE Head(sections).steps \o Flatten(Tail(sections))

\* the lookup both services use for a step: step_identifier equal to the
\* identifier, or str(step_index) equal to it
StepMatches(step, step_identifier) ==
    \/ step.step_identifier = step_identifier
    \/ StrOf(step.step_index) = step_identifier

RECURSIVE FirstMatchFrom(_, _, _)
FirstMatchFrom(steps, step_identifier, i) ==
    IF i > Len(steps) THEN 0
    ELSE IF StepMatches(steps[i], step_identifier) THEN i
    ELSE FirstMatchFrom(steps, step_identifier, i + 1)

\* first position of a matching step in a list of steps, 0 when there is none
FirstMatch(steps, step_identifier) == FirstMatchFrom(steps, step_identifier, 1)

\* the step found, as <<step>>, or <<>> for None
_find_step_by_identifier(guide_data, step_identifier) ==
    LET all == Flatten(guide_data)
        i == FirstMatch(all, step_identifier)
    IN  IF i = 0 THEN <<>> ELSE <<all[i]>>

_get_all_step_identifiers(guide_data, include_blocked) ==
    LET all == Flatten(guide_data)
        kept == SelectSeq(all, LAMBDA st : include_blocked \/ st.status # "blocked")
    IN  sort_step_identifiers([i \in 1..Len(kept) |-> kept[i].step_identifier])

\* identifiers of the alternatives of a blocked step, sorted
_find_alternatives_for_step(guide_data, blocked_identifier) ==
    LET all == Flatten(guide_data)
        alts == SelectSeq(all, LAMBDA st :
                            /\ st.status = "alternative"
                            /\ st.replaces_step_identifier = blocked_identifier)
    IN  sort_step_identifiers([i \in 1..Len(alts) |-> alts[i].step_identifier])

--------------------------------------------------------------------------
(* services/guide_adaptation_service.py *)

\* the suffixes of merge_alternatives_into_guide: "a" .. "f"
letters == <<10, 11, 12, 13, 14, 15>>

\* the content of the i-th step the generator proposes
Proposal(i) ==
    [ title                      |-> i,
      description                |-> 4 + i,
      completion_criteria        |-> 4 + i,
      assistance_hints           |-> 4 + i,
      estimated_duration_minutes |-> 4 + i ]

\* a generator answer with k proposals
Proposals(k) == [ i \in 1..k |-> Proposal(i) ]

\* the alternative step with replaces_step_identifier taken from the blocked
\* step's index instead of the identifier reported
AlternativeStep_by_index(step, current_step_identifier, alt_step, idx) ==
    [ step_identifier            |-> current_step_identifier \o <<letters[idx]>>,
      step_index                 |-> step.step_index,
      title                      |-> alt_step.title,
      description                |-> alt_step.description,
      completion_criteria        |-> alt_step.completion_criteria,
      assistance_hints           |-> alt_step.assistance_hints,
      estimated_duration_minutes |-> alt_step.estimated_duration_minutes,
      status                     |-> "alternative",
      blocked_reason             |-> "none",
      replaces_step_identifier   |-> StrOf(step.step_index) ]

\* the step merge_alternatives_into_guide builds for proposal idx (from 1)
AlternativeStep(step, current_step_identifier, alt_step, idx) ==
    [ step_identifier            |-> current_step_identifier \o <<letters[idx]>>,
      step_index                 |-> step.step_index,
      title                      |-> alt_step.title,
      description                |-> alt_step.description,
      completion_criteria        |-> alt_step.completion_criteria,
      assistance_hints           |-> alt_step.assistance_hints,
      estimated_duration_minutes |-> alt_step.estimated_duration_minutes,
      status                     |-> "alternative",
      blocked_reason             |-> "none",
      replaces_step_identifier   |-> current_step_identifier ]

\* the step the merge marks as blocked
BlockedStep(step, blocked_reason) ==
    [ step EXCEPT !.status = "blocked", !.blocked_reason = blocked_reason ]

\* the proposals that get a letter, with the last letter never given
Kept_five(alternative_steps) ==
    IF Len(alternative_steps) < Len(letters) - 1
    THEN Len(alternative_steps) ELSE Len(letters) - 1

\* proposals that get a letter: those of index < len(letters)
Kept(alternative_steps) ==
    IF Len(alternative_steps) < Len(letters) THEN Len(alternative_steps) ELSE Len(letters)

\* the alternatives one section's loop body inserts, <<>> when no step matches
SectionAlternatives(steps, current_step_identifier, alternative_steps) ==
    LET i == FirstMatch(steps, current_step_identifier)
    IN  IF i = 0 THEN <<>>
        ELSE [ idx \in 1..Kept(alternative_steps) |->
                 AlternativeStep(steps[i], current_step_identifier,
                                 alternative_steps[idx], idx) ]

\* one section's steps after the loop body: the first matching step marked
\* blocked, the alternatives inserted right after it
MergeSection(steps, current_step_identifier, blocked_reason, alternative_steps) ==
    LET i == FirstMatch(steps, current_step_identifier)
    IN  IF i = 0 THEN steps
        ELSE SubSeq(steps, 1, i - 1)
             \o <<BlockedStep(steps[i], blocked_reason)>>
             \o SectionAlternatives(steps, current_step_identifier, alternative_steps)
             \o SubSeq(steps, i + 1, Len(steps))

RECURSIVE MergedIdentifiers(_, _, _)
\* alternative_identifiers: appended section after section
MergedIdentifiers(sections, current_step_identifier, alternative_steps) ==
    IF sections = <<>> THEN <<>>
    ELSE LET alts == SectionAlternatives(Head(sections).steps, current_step_identifier,
                                         alternative_steps)
         IN  [ i \in 1..Len(alts) |-> alts[i].step_identifier ]
             \o MergedIdentifiers(Tail(sections), current_step_identifier, alternative_steps)

\* (updated_guide_data, alternative_identifiers); the argument is deep-copied,
\* so the result is a new value
merge_alternatives_into_guide(gd, current_step_identifier, blocked_reason, alternative_steps) ==
    [ guide_data |->
        [ si \in 1..Len(gd) |->
            [ gd[si] EXCEPT !.steps = MergeSection(gd[si].steps, current_step_identifier,
                                                   blocked_reason, alternative_steps) ] ],
      alternative_identifiers |->
        MergedIdentifiers(gd, current_step_identifier, alternative_steps) ]

\* the record handle_impossible_step appends to adaptation_history
AdaptationInfo(blocked_step_identifier, blocked_reason, alternatives_added) ==
    [ blocked_step_identifier |-> blocked_step_identifier,
      blocked_reason          |-> blocked_reason,
      alternatives_added      |-> alternatives_added ]

\* what the generator can answer: both providers fail, or a list of 0, 1 or
\* 2 proposals
GeneratorAnswers ==
    { [ ok |-> FALSE, alternative_steps |-> <<>> ] }
    \cup { [ ok |-> TRUE, alternative_steps |-> Proposals(k) ] : k \in {0, 1, 2} }

\* the problem descriptions a user reports
Problems == { "ui_changed" }

\* handle_impossible_step with the step marked blocked and the guide written
\* before the generator is asked
handle_impossible_step_mark_first(gd, history, current_step_identifier, problem_description, answer) ==
    LET same == [ guide_data              |-> gd,
                  adaptation_history      |-> history,
                  current_step_identifier |-> current_step_identifier,
                  alternative_identifiers |-> <<>>,
                  outcome                 |-> "none" ]
        marked == merge_alternatives_into_guide(gd, current_step_identifier,
                                                problem_description, <<>>)
        merged == merge_alternatives_into_guide(gd, current_step_identifier,
                                                problem_description,
                                                answer.alternative_steps)
        written == [ same EXCEPT
                       !.guide_data = merged.guide_data,
                       !.adaptation_history =
                           Append(history,
                                  AdaptationInfo(current_step_identifier, problem_description,
                                                 merged.alternative_identifiers)),
                       !.alternative_identifiers = merged.alternative_identifiers ]
    IN  IF _find_step_by_identifier(gd, current_step_identifier) = <<>>
        THEN [ same EXCEPT !.outcome = "error_no_step" ]
        ELSE IF ~answer.ok
        THEN [ same EXCEPT !.guide_data = marked.guide_data,
                           !.outcome = "error_generator" ]
        ELSE IF merged.alternative_identifiers = <<>>
        THEN [ written EXCEPT !.outcome = "error_no_alternative" ]
        ELSE [ written EXCEPT
                 !.current_step_identifier = merged.alternative_identifiers[1],
                 !.outcome = "adapted" ]

\* state and outcome of handle_impossible_step run without interruption on
\* the stored guide, its history and the session's pointer
handle_impossible_step(gd, history, current_step_identifier, problem_description, answer) ==
    LET same == [ guide_data              |-> gd,
                  adaptation_history      |-> history,
                  current_step_identifier |-> current_step_identifier,
                  alternative_identifiers |-> <<>>,
                  outcome                 |-> "none" ]
        merged == merge_alternatives_into_guide(gd, current_step_identifier,
                                                problem_description,
                                                answer.alternative_steps)
        written == [ same EXCEPT
                       !.guide_data = merged.guide_data,
                       !.adaptation_history =
                           Append(history,
                                  AdaptationInfo(current_step_identifier, problem_description,
                                                 merged.alternative_identifiers)),
                       !.alternative_identifiers = merged.alternative_identifiers ]
    IN  IF _find_step_by_identifier(gd, current_step_identifier) = <<>>
        THEN \* blocked_step is None: generate_step_alternatives raises on it
             [ same EXCEPT !.outcome = "error_no_step" ]
        ELSE IF ~answer.ok
        THEN [ same EXCEPT !.outcome = "error_generator" ]
        ELSE IF merged.alternative_identifiers = <<>>
        THEN \* alternative_identifiers[0] raises after the guide is written
             [ written EXCEPT !.outcome = "error_no_alternative" ]
        ELSE [ written EXCEPT
                 !.current_step_identifier = merged.alternative_identifiers[1],
                 !.outcome = "adapted" ]

--------------------------------------------------------------------------
(* services/step_disclosure_service.py, services/session_service.py *)

\* a session row as create_session inserts it
NewSession ==
    [ current_step_identifier |-> StrOf(0),
      status                  |-> "active",
      completed_at            |-> 0 ]

\* navigation.can_go_back of a view
_can_go_back(gd, current_identifier) ==
    LET all_identifiers == _get_all_step_identifiers(gd, TRUE)
    IN  IF all_identifiers = <<>> THEN FALSE
        ELSE current_identifier # all_identifiers[1]

RECURSIVE CompletedCount(_, _, _)
\* completed_count of _calculate_progress: the loop over the sorted active
\* identifiers from position i, which counts those before the current one and
\* stops at the current one
CompletedCount(all_identifiers, current_identifier, i) ==
    IF i > Len(all_identifiers) THEN 0
    ELSE IF is_identifier_before(all_identifiers[i], current_identifier)
    THEN 1 + CompletedCount(all_identifiers, current_identifier, i + 1)
    ELSE IF all_identifiers[i] = current_identifier THEN 0
    ELSE CompletedCount(all_identifiers, current_identifier, i + 1)

RECURSIVE RemainingFrom(_, _, _, _)
\* the loop of _calculate_remaining_time over the steps from position i in
\* document order: blocked steps are skipped before anything else, a step
\* with the current identifier sets found_current, a step after it adds its
\* duration
RemainingFrom(steps, current_identifier, i, found_current) ==
    IF i > Len(steps) THEN 0
    ELSE IF steps[i].status = "blocked"
    THEN RemainingFrom(steps, current_identifier, i + 1, found_current)
    ELSE IF steps[i].step_identifier = current_identifier
    THEN RemainingFrom(steps, current_identifier, i + 1, TRUE)
    ELSE (IF found_current THEN steps[i].estimated_duration_minutes ELSE 0)
         + RemainingFrom(steps, current_identifier, i + 1, found_current)

_calculate_remaining_time(gd, current_identifier) ==
    RemainingFrom(Flatten(gd), current_identifier, 1, FALSE)

\* progress of a view, without the percentage
_calculate_progress(gd, current_identifier) ==
    LET all_identifiers == _get_all_step_identifiers(gd, FALSE)
    IN  [ total_steps              |-> Len(all_identifiers),
          completed_steps          |-> CompletedCount(all_identifiers, current_identifier, 1),
          estimated_time_remaining |-> _calculate_remaining_time(gd, current_identifier) ]

\* the progress member of the active view get_current_step_only returns for
\* a session whose row has the pointer current_step_identifier: computed from
\* that identifier, also when the step shown is the alternative the call
\* redirected to
get_current_step_progress(gd, current_step_identifier) ==
    _calculate_progress(gd, current_step_identifier)

\* the response of get_current_step_only and the pointer it leaves in the
\* session row: a blocked current step with alternatives is replaced by its
\* first alternative, and the session is updated to point to it
get_current_step_only(gd, current_step_identifier) ==
    LET found == _find_step_by_identifier(gd, current_step_identifier)
        alternatives == _find_alternatives_for_step(gd, current_step_identifier)
        redirected == /\ found # <<>>
                      /\ found[1].status = "blocked"
                      /\ alternatives # <<>>
        current_step == IF redirected
                        THEN _find_step_by_identifier(gd, alternatives[1])
                        ELSE found
    IN  IF ~validate_step_identifier(current_step_identifier)
        THEN [ current_step_identifier |-> current_step_identifier,
               outcome                 |-> "error_invalid_identifier",
               step_identifier         |-> NoId,
               can_go_back             |-> FALSE ]
        ELSE [ current_step_identifier |->
                 IF redirected THEN alternatives[1] ELSE current_step_identifier,
               outcome         |-> IF current_step = <<>> THEN "completed" ELSE "active",
               step_identifier |->
                 IF current_step = <<>> THEN NoId ELSE current_step[1].step_identifier,
               \* computed from the identifier read at line 70, also after a
               \* redirect
               can_go_back     |-> IF current_step = <<>> THEN FALSE
                                   ELSE _can_go_back(gd, current_step_identifier) ]

\* step_info of get_section_overview, with the description
StepInfo_described(step, current_identifier) ==
    LET step_id == step.step_identifier
        is_completed == is_identifier_before(step_id, current_identifier)
        is_current == step_id = current_identifier
        step_info == [ step_identifier            |-> step_id,
                       step_index                 |-> step.step_index,
                       title                      |-> step.title,
                       description                |-> step.description,
                       estimated_duration_minutes |-> step.estimated_duration_minutes,
                       completed                  |-> is_completed,
                       current                    |-> is_current,
                       locked                     |-> ~is_completed /\ ~is_current,
                       status                     |-> step.status,
                       is_blocked                 |-> step.status = "blocked",
                       is_alternative             |-> step.status = "alternative" ]
    IN  IF step.status = "blocked"
        THEN step_info @@ [ blocked_reason |-> step.blocked_reason,
                            show_as        |-> "crossed_out" ]
        ELSE IF step.status = "alternative"
        THEN step_info @@ [ replaces_step_identifier |-> step.replaces_step_identifier ]
        ELSE step_info

\* step_info of get_section_overview: one entry of step_overview
StepInfo(step, current_identifier) ==
    LET step_id == step.step_identifier
        is_completed == is_identifier_before(step_id, current_identifier)
        is_current == step_id = current_identifier
        step_info == [ step_identifier            |-> step_id,
                       step_index                 |-> step.step_index,
                       title                      |-> step.title,
                       estimated_duration_minutes |-> step.estimated_duration_minutes,
                       completed                  |-> is_completed,
                       current                    |-> is_current,
                       locked                     |-> ~is_completed /\ ~is_current,
                       status                     |-> step.status,
                       is_blocked                 |-> step.status = "blocked",
                       is_alternative             |-> step.status = "alternative" ]
    IN  IF step.status = "blocked"
        THEN step_info @@ [ blocked_reason |-> step.blocked_reason,
                            show_as        |-> "crossed_out" ]
        ELSE IF step.status = "alternative"
        THEN step_info @@ [ replaces_step_identifier |-> step.replaces_step_identifier ]
        ELSE step_info

RECURSIVE SumOfDurations(_, _)
\* sum of estimated_duration_minutes over the first n steps, blocked ones left out
SumOfDurations(steps, n) ==
    IF n = 0 THEN 0
    ELSE SumOfDurations(steps, n - 1)
         + (IF steps[n].status # "blocked"
            THEN steps[n].estimated_duration_minutes ELSE 0)

\* the response of get_section_overview; the target is the first section with
\* the section_id, and a section_id the guide does not have is refused
get_section_overview(gd, session, section_id) ==
    LET targets == SelectSeq(gd, LAMBDA sec : sec.section_id = section_id)
    IN  IF targets = <<>>
        THEN [ outcome                 |-> "error_no_section",
               step_overview           |-> <<>>,
               total_estimated_minutes |-> 0 ]
        ELSE [ outcome                 |-> "overview",
               step_overview           |->
                   [ i \in 1..Len(targets[1].steps) |->
                       StepInfo(targets[1].steps[i], session.current_step_identifier) ],
               total_estimated_minutes |->
                   SumOfDurations(targets[1].steps, Len(targets[1].steps)) ]

RECURSIVE FirstSectionWith(_, _, _)
\* position of the first section, from position si, that has a step matching
\* the identifier; 0 when there is none
FirstSectionWith(gd, step_identifier, si) ==
    IF si > Len(gd) THEN 0
    ELSE IF FirstMatch(gd[si].steps, step_identifier) # 0 THEN si
    ELSE FirstSectionWith(gd, step_identifier, si + 1)

\* the steps of a section that are not blocked, in list order
ActiveSteps(section) == SelectSeq(section.steps, LAMBDA st : st.status # "blocked")

_is_last_step_in_section(section, current_step) ==
    LET active_steps == ActiveSteps(section)
    IN  IF active_steps = <<>> THEN FALSE
        ELSE active_steps[Len(active_steps)].step_identifier = current_step.step_identifier

\* the preview, as <<preview>>, or <<>> for None
_get_next_section_preview(gd, current_section_order) ==
    LET following == SelectSeq(gd, LAMBDA sec : sec.section_order = current_section_order + 1)
    IN  IF following = <<>> THEN <<>>
        ELSE << [ step_count         |-> Len(ActiveSteps(following[1])),
                  estimated_duration |->
                      SumOfDurations(following[1].steps, Len(following[1].steps)) ] >>

\* navigation.next_section_preview of the active view get_current_step_only
\* returns for a session whose row has the pointer current_step_identifier:
\* the preview when the step shown is the last of its section, None otherwise
get_current_step_preview(gd, current_step_identifier) ==
    LET view == get_current_step_only(gd, current_step_identifier)
        si == FirstSectionWith(gd, view.step_identifier, 1)
        current_step == _find_step_by_identifier(gd, view.step_identifier)
    IN  IF view.outcome # "active" \/ si = 0 THEN <<>>
        ELSE IF _is_last_step_in_section(gd[si], current_step[1])
        THEN _get_next_section_preview(gd, gd[si].section_order)
        ELSE <<>>

\* the session row and the response after advance_to_next_step
advance_to_next_step(gd, session) ==
    LET all_identifiers == _get_all_step_identifiers(gd, FALSE)
        next_identifier ==
            get_next_identifier(session.current_step_identifier, all_identifiers)
        view == get_current_step_only(gd, next_identifier)
    IN  IF next_identifier = NoId
        THEN [ session |-> [ session EXCEPT !.status = "completed",
                                            !.completed_at = @ + 1 ],
               outcome |-> "completed",
               step_identifier |-> NoId ]
        ELSE [ session |-> [ session EXCEPT
                               !.current_step_identifier = view.current_step_identifier ],
               outcome |-> view.outcome,
               step_identifier |-> view.step_identifier ]

\* the session row and the response after go_back_to_previous_step
go_back_to_previous_step(gd, session) ==
    LET all_identifiers == _get_all_step_identifiers(gd, TRUE)
        previous_identifier ==
            get_previous_identifier(session.current_step_identifier, all_identifiers)
        view == get_current_step_only(gd, previous_identifier)
    IN  IF previous_identifier = NoId
        THEN [ session |-> session,
               outcome |-> "error_first_step",
               step_identifier |-> NoId ]
        ELSE [ session |-> [ session EXCEPT
                               !.current_step_identifier = view.current_step_identifier ],
               outcome |-> view.outcome,
               step_identifier |-> view.step_identifier ]

SessionStatuses == { "active", "paused", "completed", "failed" }

\* the transition table with a restart from completed
_is_valid_status_transition_restart(from_status, to_status) ==
    to_status \in
        CASE from_status = "active" -> { "paused", "completed", "failed" }
          [] from_status = "paused" -> { "active", "failed" }
          [] from_status = "failed" -> { "active" }
          [] OTHER -> { "active" }

\* valid_transitions: the statuses stored in the row are the values of the
\* SessionStatus members, which compare equal to them
_is_valid_status_transition(from_status, to_status) ==
    to_status \in
        CASE from_status = "active" -> { "paused", "completed", "failed" }
          [] from_status = "paused" -> { "active", "failed" }
          [] from_status = "failed" -> { "active" }
          [] OTHER -> {}

\* update_session with the pointer put back on the first step when the
\* session becomes active again
update_session_from_start(session, to_status) ==
    IF ~_is_valid_status_transition(session.status, to_status)
    THEN [ session |-> session, outcome |-> "error_invalid_transition" ]
    ELSE [ session |-> [ session EXCEPT
                           !.status = to_status,
                           !.current_step_identifier =
                               IF to_status = "active" THEN StrOf(0) ELSE @,
                           !.completed_at =
                               IF to_status = "completed" THEN @ + 1 ELSE @ ],
           outcome |-> "updated" ]

\* update_session without the completion timestamp
update_session_unstamped(session, to_status) ==
    IF ~_is_valid_status_transition(session.status, to_status)
    THEN [ session |-> session, outcome |-> "error_invalid_transition" ]
    ELSE [ session |-> [ session EXCEPT !.status = to_status ],
           outcome |-> "updated" ]

\* the session row and the outcome after update_session
update_session(session, to_status) ==
    IF ~_is_valid_status_transition(session.status, to_status)
    THEN [ session |-> session, outcome |-> "error_invalid_transition" ]
    ELSE [ session |-> [ session EXCEPT
                           !.status = to_status,
                           !.completed_at =
                               IF to_status = "completed" THEN @ + 1 ELSE @ ],
           outcome |-> "updated" ]

--------------------------------------------------------------------------
(* State *)

VARIABLES
    guide_data,          \* StepGuideModel.guide_data["sections"] of the one guide
    adaptation_history,  \* StepGuideModel.adaptation_history
    sessions,            \* session id -> GuideSessionModel row
    requests,            \* session id -> the handle_impossible_step call in flight
    last,                \* the operation that ended last, and its response
    generated,           \* generator answers with a proposal list, so far
    advances,            \* session id -> advance calls since the session was
                         \* created, -1 once anything else touched it or its guide
    calls,               \* client -> the advance or go-back request it has in flight
    applied              \* the call of a function of utils/sorting.py made last on
                         \* a list of identifiers, and what it returned

vars == <<guide_data, adaptation_history, sessions, requests, last, generated, advances,
          calls, applied>>

SessionIds == DOMAIN sessions

\* no handle_impossible_step call in flight
Idle ==
    [ pc                      |-> "idle",
      guide_data              |-> <<>>,
      adaptation_history      |-> <<>>,
      current_step_identifier |-> NoId,
      problem_description     |-> "none",
      alternative_identifiers |-> <<>> ]

Response(s, operation, outcome, step_identifier) ==
    [ session_id              |-> s,
      operation               |-> operation,
      outcome                 |-> outcome,
      step_identifier         |-> step_identifier,
      step_overview           |-> <<>>,
      total_estimated_minutes |-> 0 ]

\* the section ids a client asks an overview of: those of the generated guide
\* and one the guide does not have
RequestedSections == 0..Len(GuideShape)

\* steps of the generated guide
TotalSteps == Len(Flatten(GeneratedGuide))

\* the clients that send requests at the same time
Clients == { 1, 2 }

\* no advance or go-back request in flight: nothing read yet
NoCall ==
    [ pc         |-> "idle",
      session_id |-> 0,
      guide_data |-> <<>>,
      session    |-> NewSession ]

\* no function of utils/sorting.py called on a list of its own
NotApplied ==
    [ function |-> "none", ids |-> <<>>, x |-> NoId, result |-> <<>> ]

InitWith(ids) ==
    /\ applied = NotApplied
    /\ guide_data = GeneratedGuide
    /\ adaptation_history = <<>>
    /\ sessions = [ s \in ids |-> NewSession ]
    /\ requests = [ s \in ids |-> Idle ]
    /\ last = Response(0, "none", "none", NoId)
    /\ generated = 0
    /\ advances = [ s \in ids |-> 0 ]
    /\ calls = [ c \in Clients |-> NoCall ]

\* one session on the guide
Init == InitWith({1})

\* two sessions on the same guide
InitShared == InitWith({1, 2})

Untracked == [ s \in SessionIds |-> -1 ]

--------------------------------------------------------------------------
(* Operations *)

GetCurrentStep(s) ==
    \E view \in { get_current_step_only(guide_data, sessions[s].current_step_identifier) } :
        /\ sessions' = [ sessions EXCEPT
                           ![s].current_step_identifier = view.current_step_identifier ]
        /\ last' = Response(s, "get_current_step", view.outcome, view.step_identifier)
        /\ advances' = [ advances EXCEPT ![s] = -1 ]
        /\ UNCHANGED <<applied, guide_data, adaptation_history, requests, generated, calls>>

Advance(s) ==
    \E r \in { advance_to_next_step(guide_data, sessions[s]) } :
        /\ r.session.completed_at <= MaxStamps
        /\ sessions' = [ sessions EXCEPT ![s] = r.session ]
        /\ last' = Response(s, "advance", r.outcome, r.step_identifier)
        /\ advances' = [ advances EXCEPT
                           ![s] = IF @ >= 0 /\ @ <= TotalSteps THEN @ + 1 ELSE -1 ]
        /\ UNCHANGED <<applied, guide_data, adaptation_history, requests, generated, calls>>

GoBack(s) ==
    \E r \in { go_back_to_previous_step(guide_data, sessions[s]) } :
        /\ sessions' = [ sessions EXCEPT ![s] = r.session ]
        /\ last' = Response(s, "go_back", r.outcome, r.step_identifier)
        /\ advances' = [ advances EXCEPT ![s] = -1 ]
        /\ UNCHANGED <<applied, guide_data, adaptation_history, requests, generated, calls>>

\* an overview that moves the session to the first step of the section shown
GetSectionOverview_moving(s, section_id) ==
    \E r \in { get_section_overview(guide_data, sessions[s], section_id) } :
        /\ last' = [ Response(s, "get_section_overview", r.outcome, NoId) EXCEPT
                       !.step_overview = r.step_overview,
                       !.total_estimated_minutes = r.total_estimated_minutes ]
        /\ sessions' = [ sessions EXCEPT
                           ![s].current_step_identifier =
                               IF r.step_overview = <<>> THEN @
                               ELSE r.step_overview[1].step_identifier ]
        /\ advances' = [ advances EXCEPT ![s] = -1 ]
        /\ UNCHANGED <<applied, guide_data, adaptation_history, requests, generated, calls>>

GetSectionOverview(s, section_id) ==
    \E r \in { get_section_overview(guide_data, sessions[s], section_id) } :
        /\ last' = [ Response(s, "get_section_overview", r.outcome, NoId) EXCEPT
                       !.step_overview = r.step_overview,
                       !.total_estimated_minutes = r.total_estimated_minutes ]
        /\ advances' = [ advances EXCEPT ![s] = -1 ]
        /\ UNCHANGED <<applied, guide_data, adaptation_history, sessions, requests, generated,
                       calls>>

UpdateSession(s, to_status) ==
    \E r \in { update_session(sessions[s], to_status) } :
        /\ r.session.completed_at <= MaxStamps
        /\ sessions' = [ sessions EXCEPT ![s] = r.session ]
        /\ last' = Response(s, "update_session", r.outcome, NoId)
        /\ advances' = [ advances EXCEPT ![s] = -1 ]
        /\ UNCHANGED <<applied, guide_data, adaptation_history, requests, generated, calls>>

\* handle_impossible_step from its first line to its return or raise
ReportBlockedWithin(s, problem_description, answer, limit) ==
    /\ requests[s].pc = "idle"
    /\ answer.ok => generated < limit
    /\ \E r \in { handle_impossible_step(guide_data, adaptation_history,
                                       sessions[s].current_step_identifier,
                                       problem_description, answer) } :
        /\ guide_data' = r.guide_data
        /\ adaptation_history' = r.adaptation_history
        /\ sessions' = [ sessions EXCEPT
                           ![s].current_step_identifier = r.current_step_identifier ]
        /\ last' = Response(s, "report_blocked", r.outcome,
                            IF r.outcome = "adapted" THEN r.current_step_identifier ELSE NoId)
        /\ generated' = IF answer.ok THEN generated + 1 ELSE generated
        /\ advances' = IF r.guide_data # guide_data
                       THEN Untracked ELSE [ advances EXCEPT ![s] = -1 ]
        /\ UNCHANGED <<applied, requests, calls>>

ReportBlocked(s, problem_description, answer) ==
    ReportBlockedWithin(s, problem_description, answer, MaxAdaptations)

Next ==
    \E s \in SessionIds :
        \/ GetCurrentStep(s)
        \/ Advance(s)
        \/ GoBack(s)
        \/ \E to_status \in SessionStatuses : UpdateSession(s, to_status)
        \/ \E section_id \in RequestedSections : GetSectionOverview(s, section_id)
        \/ \E p \in Problems, answer \in GeneratorAnswers : ReportBlocked(s, p, answer)

\* every operation runs from start to end without interleaving
Spec == Init /\ [][Next]_vars

NextShared ==
    \E s \in SessionIds :
        \/ GetCurrentStep(s)
        \/ Advance(s)
        \/ GoBack(s)
        \/ \E p \in Problems, answer \in GeneratorAnswers : ReportBlocked(s, p, answer)

\* two sessions on one guide, every operation from start to end
SpecShared == InitShared /\ [][NextShared]_vars

NextStatus ==
    \E s \in SessionIds :
        \/ GetCurrentStep(s)
        \/ Advance(s)
        \/ GoBack(s)
        \/ \E to_status \in SessionStatuses : UpdateSession(s, to_status)
        \/ \E p \in Problems, answer \in GeneratorAnswers :
              ReportBlockedWithin(s, p, answer, MaxReports)

\* one session whose status is updated between its other operations, every
\* operation from start to end
SpecStatus == Init /\ [][NextStatus]_vars

\* generator answers with more proposals than merge_alternatives_into_guide
\* has letters
LongAnswers ==
    { [ ok |-> TRUE, alternative_steps |-> Proposals(k) ] :
        k \in { Len(letters) + 1, Len(letters) + 2 } }

NextLong ==
    \E s \in SessionIds :
        \/ GetCurrentStep(s)
        \/ Advance(s)
        \/ GoBack(s)
        \/ \E p \in Problems, answer \in LongAnswers :
              ReportBlockedWithin(s, p, answer, MaxLongAnswers)

\* one session, every operation from start to end, every generator answer
\* longer than the list of letters
SpecLong == Init /\ [][NextLong]_vars

--------------------------------------------------------------------------
(* handle_impossible_step step by step: it awaits the generator, then the  *)
(* guide UPDATE and its commit, then the session UPDATE and its commit,    *)
(* and other requests run at each await.                                   *)

\* lines 52-65: the session and the guide are read, the context is built
BeginReport(s, problem_description) ==
    \E found \in { _find_step_by_identifier(guide_data,
                                            sessions[s].current_step_identifier) } :
        /\ requests[s].pc = "idle"
        /\ requests' = [ requests EXCEPT ![s] =
                           IF found = <<>> THEN Idle
                           ELSE [ pc                      |-> "generating",
                                  guide_data              |-> guide_data,
                                  adaptation_history      |-> adaptation_history,
                                  current_step_identifier |->
                                      sessions[s].current_step_identifier,
                                  problem_description     |-> problem_description,
                                  alternative_identifiers |-> <<>> ] ]
        /\ last' = IF found = <<>>
                   THEN Response(s, "report_blocked", "error_no_step", NoId)
                   ELSE Response(s, "report_blocked", "generating", NoId)
        /\ advances' = [ advances EXCEPT ![s] = -1 ]
        /\ UNCHANGED <<applied, guide_data, adaptation_history, sessions, generated, calls>>

\* line 68 raises: both providers failed
GeneratorFails(s) ==
    /\ requests[s].pc = "generating"
    /\ requests' = [ requests EXCEPT ![s] = Idle ]
    /\ last' = Response(s, "report_blocked", "error_generator", NoId)
    /\ UNCHANGED <<applied, guide_data, adaptation_history, sessions, generated, advances, calls>>

\* lines 68-97: the generator answers, the alternatives are merged into the
\* guide that was read, the guide row is written and committed
GeneratorReturnsWithin(s, answer, limit) ==
    /\ requests[s].pc = "generating"
    /\ answer.ok
    /\ generated < limit
    /\ \E merged \in { merge_alternatives_into_guide(
                        requests[s].guide_data, requests[s].current_step_identifier,
                        requests[s].problem_description, answer.alternative_steps) } :
        /\ guide_data' = merged.guide_data
        /\ adaptation_history' =
               Append(requests[s].adaptation_history,
                      AdaptationInfo(requests[s].current_step_identifier,
                                     requests[s].problem_description,
                                     merged.alternative_identifiers))
        /\ requests' = [ requests EXCEPT ![s] =
                           IF merged.alternative_identifiers = <<>> THEN Idle
                           ELSE [ @ EXCEPT
                                    !.pc = "guide_written",
                                    !.alternative_identifiers =
                                        merged.alternative_identifiers ] ]
        /\ last' = IF merged.alternative_identifiers = <<>>
                   THEN Response(s, "report_blocked", "error_no_alternative", NoId)
                   ELSE Response(s, "report_blocked", "guide_written", NoId)
        /\ generated' = generated + 1
        /\ advances' = Untracked
        /\ UNCHANGED <<applied, sessions, calls>>

GeneratorReturns(s, answer) == GeneratorReturnsWithin(s, answer, MaxAdaptations)

\* lines 97-125: the session row is written and committed
WriteSessionStep(s) ==
    /\ requests[s].pc = "guide_written"
    /\ sessions' = [ sessions EXCEPT ![s].current_step_identifier =
                                         requests[s].alternative_identifiers[1] ]
    /\ requests' = [ requests EXCEPT ![s] = Idle ]
    /\ last' = Response(s, "report_blocked", "adapted",
                        requests[s].alternative_identifiers[1])
    /\ UNCHANGED <<applied, guide_data, adaptation_history, generated, advances, calls>>

NextAsync ==
    \E s \in SessionIds :
        \/ GetCurrentStep(s)
        \/ Advance(s)
        \/ GoBack(s)
        \/ \E p \in Problems : BeginReport(s, p)
        \/ GeneratorFails(s)
        \/ \E answer \in GeneratorAnswers : GeneratorReturns(s, answer)
        \/ WriteSessionStep(s)

\* one session, its requests interleaved at the awaits of
\* handle_impossible_step
SpecAsync == Init /\ [][NextAsync]_vars

NextNested ==
    \E s \in SessionIds :
        \/ GetCurrentStep(s)
        \/ Advance(s)
        \/ GoBack(s)
        \/ \E p \in Problems : BeginReport(s, p)
        \/ GeneratorFails(s)
        \/ GeneratorReturnsWithin(s, [ ok |-> TRUE, alternative_steps |-> Proposals(1) ],
                                  MaxNesting)
        \/ WriteSessionStep(s)

\* one session whose reports interleave with its other requests, each
\* generator answer a single proposal
SpecNested == Init /\ [][NextNested]_vars

NextSharedAsync ==
    \E s \in SessionIds :
        \/ GetCurrentStep(s)
        \/ \E p \in Problems : BeginReport(s, p)
        \/ GeneratorFails(s)
        \/ \E answer \in GeneratorAnswers : GeneratorReturns(s, answer)
        \/ WriteSessionStep(s)

\* two sessions on one guide, their reports interleaved at the awaits of
\* handle_impossible_step
SpecSharedAsync == InitShared /\ [][NextSharedAsync]_vars

--------------------------------------------------------------------------
(* Two requests on one session at the same time.  Each request has its own *)
(* database session: what it selected at its start is what it works on     *)
(* (expire_on_commit=False), and its UPDATE sets only the columns named.   *)

\* advance_to_next_step, lines 173-199: the session and the guide are read
BeginAdvance(c, s) ==
    /\ calls[c].pc = "idle"
    /\ calls' = [ calls EXCEPT ![c] = [ pc         |-> "advance",
                                        session_id |-> s,
                                        guide_data |-> guide_data,
                                        session    |-> sessions[s] ] ]
    /\ UNCHANGED <<applied, guide_data, adaptation_history, sessions, requests, last,
                   generated, advances>>

\* advance_to_next_step, lines 200-252: the next identifier is computed from
\* what was read, the session row is updated and the view returned
EndAdvance(c) ==
    /\ calls[c].pc = "advance"
    /\ \E s \in { calls[c].session_id },
          r \in { advance_to_next_step(calls[c].guide_data, calls[c].session) } :
        /\ sessions' = [ sessions EXCEPT ![s] =
                           IF r.session.status # calls[c].session.status
                              \/ r.session.completed_at # calls[c].session.completed_at
                           THEN [ @ EXCEPT !.status = "completed",
                                           !.completed_at = @ + 1 ]
                           ELSE [ @ EXCEPT !.current_step_identifier =
                                               r.session.current_step_identifier ] ]
        /\ sessions'[s].completed_at <= MaxStamps
        /\ last' = Response(s, "advance", r.outcome, r.step_identifier)
        /\ advances' = [ advances EXCEPT ![s] = -1 ]
        /\ calls' = [ calls EXCEPT ![c] = NoCall ]
        /\ UNCHANGED <<applied, guide_data, adaptation_history, requests, generated>>

\* go_back_to_previous_step, lines 263-283: the session and the guide are read
BeginGoBack(c, s) ==
    /\ calls[c].pc = "idle"
    /\ calls' = [ calls EXCEPT ![c] = [ pc         |-> "go_back",
                                        session_id |-> s,
                                        guide_data |-> guide_data,
                                        session    |-> sessions[s] ] ]
    /\ UNCHANGED <<applied, guide_data, adaptation_history, sessions, requests, last,
                   generated, advances>>

\* go_back_to_previous_step, lines 285-301: the previous identifier is
\* computed from what was read, the session row is updated, the view returned
EndGoBack(c) ==
    /\ calls[c].pc = "go_back"
    /\ \E s \in { calls[c].session_id },
          r \in { go_back_to_previous_step(calls[c].guide_data, calls[c].session) } :
        /\ sessions' = [ sessions EXCEPT ![s] =
                           IF r.outcome = "error_first_step" THEN @
                           ELSE [ @ EXCEPT !.current_step_identifier =
                                               r.session.current_step_identifier ] ]
        /\ last' = Response(s, "go_back", r.outcome, r.step_identifier)
        /\ advances' = [ advances EXCEPT ![s] = -1 ]
        /\ calls' = [ calls EXCEPT ![c] = NoCall ]
        /\ UNCHANGED <<applied, guide_data, adaptation_history, requests, generated>>

NextRace ==
    \E s \in SessionIds :
        \/ \E c \in Clients : BeginAdvance(c, s)
        \/ \E c \in Clients : EndAdvance(c)
        \/ \E c \in Clients : BeginGoBack(c, s)
        \/ \E c \in Clients : EndGoBack(c)

\* one session, the advance and go-back requests of two clients interleaved
SpecRace == Init /\ [][NextRace]_vars

--------------------------------------------------------------------------
(* utils/sorting.py called on lists of valid identifiers of any content     *)

\* longest list of identifiers a function is called on
MaxLen == 3

\* valid identifiers: "0", "1", "01", "1a", "2", "10"
Identifiers == { <<0>>, <<1>>, <<0, 1>>, <<1, 10>>, <<2>>, <<1, 0>> }

\* "10", "1", "2", "1a", "1b", "10a", "0", "2a"
UnsortedList ==
    << <<1, 0>>, <<1>>, <<2>>, <<1, 10>>, <<1, 11>>, <<1, 0, 10>>, <<0>>, <<2, 10>> >>

\* identifiers that do not match the pattern: "0aa", "a", "a1"
MalformedIdentifiers == { <<0, 10, 10>>, <<10>>, <<10, 1>> }

\* valid identifiers of small and of large numeric value: "0", "999998",
\* "999999", "999999a", "1000000"
WideIdentifiers ==
    { <<0>>, <<9, 9, 9, 9, 9, 8>>, <<9, 9, 9, 9, 9, 9>>, <<9, 9, 9, 9, 9, 9, 10>>,
      <<1, 0, 0, 0, 0, 0, 0>> }

\* the lists a caller passes: every list of at most MaxLen identifiers, the
\* unsorted list, and the lists of a malformed and a valid identifier
IdentifierLists ==
    UNION { [ 1..n -> Identifiers ] : n \in 0..MaxLen }
    \cup { UnsortedList }
    \cup { <<m, v>> : m \in MalformedIdentifiers, v \in WideIdentifiers }

InitSorting ==
    /\ applied \in { [ NotApplied EXCEPT !.ids = ids ] : ids \in IdentifierLists }
    /\ guide_data = GeneratedGuide
    /\ adaptation_history = <<>>
    /\ sessions = [ s \in {1} |-> NewSession ]
    /\ requests = [ s \in {1} |-> Idle ]
    /\ last = Response(0, "none", "none", NoId)
    /\ generated = 0
    /\ advances = [ s \in {1} |-> 0 ]
    /\ calls = [ c \in Clients |-> NoCall ]

Applied(function, x, result) ==
    /\ applied' = [ applied EXCEPT !.function = function, !.x = x, !.result = result ]
    /\ UNCHANGED <<guide_data, adaptation_history, sessions, requests, last, generated,
                   advances, calls>>

\* sort_step_identifiers(ids)
ApplySort ==
    Applied("sort_step_identifiers", NoId, sort_step_identifiers(applied.ids))

\* is_identifier_before(ids[i], ids[j]) for every i and j
ApplyIsBefore ==
    Applied("is_identifier_before", NoId,
            [ i \in 1..Len(applied.ids) |->
                [ j \in 1..Len(applied.ids) |->
                    is_identifier_before(applied.ids[i], applied.ids[j]) ] ])

\* get_previous_identifier(get_next_identifier(x, ids), ids); a None passed as
\* current is not in the list, and None is returned
ApplyNextThenPrevious(x) ==
    Applied("previous_of_next", x,
            get_previous_identifier(get_next_identifier(x, applied.ids), applied.ids))

\* get_next_identifier(get_previous_identifier(x, ids), ids)
ApplyPreviousThenNext(x) ==
    Applied("next_of_previous", x,
            get_next_identifier(get_previous_identifier(x, applied.ids), applied.ids))

\* get_next_identifier(x, ids)
ApplyNext(x) ==
    Applied("get_next_identifier", x, get_next_identifier(x, applied.ids))

\* get_previous_identifier(x, ids)
ApplyPrevious(x) ==
    Applied("get_previous_identifier", x, get_previous_identifier(x, applied.ids))

NextSorting ==
    \/ ApplySort
    \/ ApplyIsBefore
    \/ \E x \in Identifiers : ApplyNext(x)
    \/ \E x \in Identifiers : ApplyPrevious(x)
    \/ \E i \in 1..Len(applied.ids) : ApplyNextThenPrevious(applied.ids[i])
    \/ \E i \in 1..Len(applied.ids) : ApplyPreviousThenNext(applied.ids[i])

\* the functions of utils/sorting.py called on a list of identifiers
SpecSorting == InitSorting /\ [][NextSorting]_vars

--------------------------------------------------------------------------
(* Properties *)

FailedAnswer == [ ok |-> FALSE, alternative_steps |-> <<>> ]
EmptyAnswer == [ ok |-> TRUE, alternative_steps |-> <<>> ]
ErrorOutcomes == { "error_no_step", "error_generator", "error_no_alternative" }

Pointer(s) == sessions[s].current_step_identifier
ActiveSequence(gd) == _get_all_step_identifiers(gd, FALSE)

\* C1: when the generator call of handle_impossible_step fails (both
\* providers), the guide data, the adaptation history and the session row
\* are what they were before the call, and the call ends with an error.
C1_GeneratorFailureLeavesState ==
    [][ \A s \in SessionIds, p \in Problems :
          (last'.operation = "report_blocked" /\ ReportBlocked(s, p, FailedAnswer)) =>
              /\ UNCHANGED <<guide_data, adaptation_history, sessions>>
              /\ last'.outcome \in ErrorOutcomes ]_vars

\* a generator failure was reported on a guide that was adapted before
C1_Witness ==
    /\ last.operation = "report_blocked"
    /\ last.outcome = "error_generator"
    /\ adaptation_history # <<>>

\* C2: when the generator answers with an empty list of alternatives,
\* handle_impossible_step ends with an error and changes nothing: the step
\* is not marked blocked, no record is appended, the pointer stays.
C2_EmptyAnswerLeavesState ==
    [][ \A s \in SessionIds, p \in Problems :
          ReportBlocked(s, p, EmptyAnswer) =>
              /\ UNCHANGED <<guide_data, adaptation_history, sessions>>
              /\ last'.outcome \in ErrorOutcomes ]_vars

\* C3: the guide mutation and the pointer redirect of one report are one
\* atomic step: whenever a step of the system commits an adaptation (the
\* history gets its record), the same step moves the reporting session from
\* the blocked step to the first alternative.
C3_GuideAndPointerCommitTogether ==
    [][ adaptation_history' # adaptation_history =>
          \E rec \in { adaptation_history'[Len(adaptation_history')] } :
              /\ rec.alternatives_added # <<>>
              /\ \E s \in SessionIds :
                    /\ Pointer(s) = rec.blocked_step_identifier
                    /\ sessions'[s].current_step_identifier = rec.alternatives_added[1] ]_vars

\* the identifiers b gets for k proposals: b followed by the k first letters
LetterIdentifiers(b, k) == [ j \in 1..k |-> b \o <<letters[j]>> ]

\* seq with its first b replaced by the list alts
ReplacedIn(seq, b, alts) ==
    LET i == IndexOf(b, seq)
    IN  SubSeq(seq, 1, i - 1) \o alts \o SubSeq(seq, i + 1, Len(seq))

\* C4: after a successful report on a current step b of the active
\* sequence, with k proposals (1 <= k <= 6), the active sequence is the
\* previous one with b replaced in place by b's k alternatives in letter
\* order, and the pointer is the first alternative.
C4_AlternativesReplaceInPlace ==
    [][ \A s \in SessionIds, p \in Problems, answer \in GeneratorAnswers :
          ( /\ ReportBlocked(s, p, answer)
            /\ last'.outcome = "adapted"
            /\ IndexOf(Pointer(s), ActiveSequence(guide_data)) # 0 ) =>
              /\ ActiveSequence(guide_data') =
                     ReplacedIn(ActiveSequence(guide_data), Pointer(s),
                                LetterIdentifiers(Pointer(s), Len(answer.alternative_steps)))
              /\ sessions'[s].current_step_identifier = Pointer(s) \o <<letters[1]>> ]_vars

C6_UniqueIdentifiers ==
    \E all \in { Flatten(guide_data) } :
        \A i, j \in 1..Len(all) :
            i # j => all[i].step_identifier # all[j].step_identifier

\* C7: every step identifier and every session pointer is digits followed by
\* at most one letter.
C7_IdentifiersWellFormed ==
    /\ \E all \in { Flatten(guide_data) } :
          \A i \in 1..Len(all) : validate_step_identifier(all[i].step_identifier)
    /\ \A s \in SessionIds : validate_step_identifier(Pointer(s))

\* C8: while a session is active and none of its operations is in progress,
\* its pointer resolves to a step of the guide that is not blocked.
C8_PointerRestsOnUnblockedStep ==
    \A s \in SessionIds :
        (sessions[s].status = "active" /\ requests[s].pc = "idle") =>
            \E found \in { _find_step_by_identifier(guide_data, Pointer(s)) } :
                found # <<>> /\ found[1].status # "blocked"

\* C9: on the generated guide of N steps, with nothing but advance called on
\* a new session, after k < N calls the session is active at the k-th next
\* step and the call returned that step's view; the N-th call returns
\* completed and the session is completed, its completion stamped once.
C9_AdvanceCompletesOnce ==
    \A s \in SessionIds :
        (advances[s] >= 0 /\ advances[s] <= TotalSteps) =>
            IF advances[s] < TotalSteps
            THEN /\ sessions[s] = [ NewSession EXCEPT
                                      !.current_step_identifier = StrOf(advances[s]) ]
                 /\ advances[s] >= 1 =>
                        last = Response(s, "advance", "active", StrOf(advances[s]))
            ELSE /\ sessions[s].status = "completed"
                 /\ sessions[s].completed_at = 1
                 /\ last = Response(s, "advance", "completed", NoId)

\* advance was called N times on the new session
C9_Witness == \E s \in SessionIds : advances[s] = TotalSteps

\* C10: when the pointer p is in the active sequence and is not its last
\* element, advance moves the pointer to the least non-blocked identifier
\* greater than p.
C10_AdvanceToLeastGreater ==
    [][ \A s \in SessionIds :
          \E active \in { ActiveSequence(guide_data) } :
              ( /\ Advance(s)
                /\ IndexOf(Pointer(s), active) # 0
                /\ Pointer(s) # active[Len(active)] ) =>
                  \E next \in { sessions'[s].current_step_identifier } :
                      /\ IndexOf(next, active) # 0
                      /\ is_identifier_before(Pointer(s), next)
                      /\ \A i \in 1..Len(active) :
                            is_identifier_before(Pointer(s), active[i]) =>
                                ~is_identifier_before(active[i], next) ]_vars

\* C11: requests on one session are serialized: a request that writes the
\* session row has read the row as it is when it writes (a request whose
\* read is stale is rejected and writes nothing), so two requests never
\* both succeed from the same read of the pointer.
C11_NoWriteFromStaleRead ==
    [][ \A c \in Clients :
          (EndAdvance(c) \/ (EndGoBack(c) /\ last'.outcome # "error_first_step")) =>
              sessions[calls[c].session_id] = calls[c].session ]_vars

\* C12: sessions do not disturb each other: while a report of one session
\* waits for the generator the other session's requests run as they would
\* alone, and an adaptation that is committed stays committed: no later
\* commit takes a record out of the history, a step out of the guide, or the
\* blocked mark off a step.
C12_CommittedAdaptationKept ==
    [][ /\ Len(adaptation_history') >= Len(adaptation_history)
        /\ SubSeq(adaptation_history', 1, Len(adaptation_history)) = adaptation_history
        /\ \E before \in { Flatten(guide_data) }, after \in { Flatten(guide_data') } :
              \A i \in 1..Len(before) :
                  \E j \in 1..Len(after) :
                      /\ after[j].step_identifier = before[i].step_identifier
                      /\ before[i].status = "blocked" => after[j].status = "blocked" ]_vars

\* the transitions the specification lists as legal
LegalTransitions ==
    { <<"active", "paused">>, <<"active", "completed">>, <<"active", "failed">>,
      <<"paused", "active">>, <<"paused", "failed">>, <<"failed", "active">> }

\* C13: update_session changes the status to the one requested when the
\* pair is a legal transition; any other request, from completed or to the
\* status the session has, ends with an invalid-transition error and leaves
\* the session row as it was.
C13_UpdateSessionFollowsTable ==
    [][ \A s \in SessionIds, to_status \in SessionStatuses :
          (last'.operation = "update_session" /\ UpdateSession(s, to_status)) =>
              IF <<sessions[s].status, to_status>> \in LegalTransitions
              THEN /\ sessions'[s].status = to_status
                   /\ sessions'[s].current_step_identifier = Pointer(s)
                   /\ last'.outcome = "updated"
              ELSE /\ sessions'[s] = sessions[s]
                   /\ last'.outcome = "error_invalid_transition" ]_vars

\* a status request on a completed session was refused
C13_Witness ==
    /\ last.operation = "update_session"
    /\ last.outcome = "error_invalid_transition"
    /\ sessions[last.session_id].status = "completed"

\* C14: whatever the operation, a change of the session status is a legal
\* transition, and a completed session keeps its status and its completion
\* stamp.
C14_StatusChangesAreLegal ==
    [][ \A s \in SessionIds :
          /\ sessions'[s].status # sessions[s].status =>
                 <<sessions[s].status, sessions'[s].status>> \in LegalTransitions
          /\ sessions[s].status = "completed" =>
                 /\ sessions'[s].status = "completed"
                 /\ sessions'[s].completed_at = sessions[s].completed_at ]_vars

\* every identifier of the guide, blocked steps included, sorted
FullSequence(gd) == _get_all_step_identifiers(gd, TRUE)

\* C15: go_back with the pointer on the first element of the full sorted
\* sequence (blocked steps included) ends with the already-at-first-step
\* error and leaves the session row as it was.
C15_GoBackFromFirstFails ==
    [][ \A s \in SessionIds :
          ( /\ last'.operation = "go_back"
            /\ FullSequence(guide_data) # <<>>
            /\ Pointer(s) = FullSequence(guide_data)[1]
            /\ GoBack(s) ) =>
              /\ last'.outcome = "error_first_step"
              /\ sessions'[s] = sessions[s] ]_vars

\* go_back was refused on the first step, which is blocked
C15_Witness ==
    /\ last.operation = "go_back"
    /\ last.outcome = "error_first_step"
    /\ \E found \in { _find_step_by_identifier(guide_data, Pointer(last.session_id)) } :
          found # <<>> /\ found[1].status = "blocked"

\* C16: when go_back succeeds from pointer p, the pointer after the call and
\* the step of the view returned are the element before p in the full
\* sorted sequence (blocked steps included).
C16_GoBackToPrevious ==
    [][ \A s \in SessionIds :
          (GoBack(s) /\ last'.outcome # "error_first_step") =>
              \E previous \in { get_previous_identifier(Pointer(s),
                                                        FullSequence(guide_data)) } :
                  /\ sessions'[s].current_step_identifier = previous
                  /\ last'.step_identifier = previous ]_vars

\* C17: the can_go_back flag of the view get_current_step_only returns is
\* false exactly when the step shown is the first element of the full sorted
\* sequence, also after a redirect from a blocked step; and when the flag is
\* false a go_back called next fails.
C17_CanGoBackFlag ==
    [][ \A s \in SessionIds :
          \E view \in { get_current_step_only(guide_data, Pointer(s)) } :
              (GetCurrentStep(s) /\ view.outcome = "active") =>
                  /\ view.can_go_back <=>
                         view.step_identifier # FullSequence(guide_data)[1]
                  /\ ~view.can_go_back =>
                         go_back_to_previous_step(guide_data', sessions'[s]).outcome
                             = "error_first_step" ]_vars

\* identifiers of the steps of status alternative that replace step b
AlternativesOf(gd, b) ==
    { st.step_identifier : st \in
          { Flatten(gd)[i] : i \in { j \in 1..Len(Flatten(gd)) :
                /\ Flatten(gd)[j].status = "alternative"
                /\ Flatten(gd)[j].replaces_step_identifier = b } } }

\* C18: get_current_step_only called with the pointer on a blocked step
\* that has an alternative leaves the pointer on the alternative of that
\* step with the lowest identifier and returns the view of that alternative.
C18_RedirectToFirstAlternative ==
    [][ \A s \in SessionIds :
          \E found \in { _find_step_by_identifier(guide_data, Pointer(s)) },
             alts \in { AlternativesOf(guide_data, Pointer(s)) } :
              ( /\ GetCurrentStep(s)
                /\ found # <<>>
                /\ found[1].status = "blocked"
                /\ alts # {} ) =>
                  /\ sessions'[s].current_step_identifier \in alts
                  /\ \A a \in alts :
                        ~is_identifier_before(a, sessions'[s].current_step_identifier)
                  /\ last'.outcome = "active"
                  /\ last'.step_identifier = sessions'[s].current_step_identifier ]_vars

\* a guide with the description, the completion criteria and the hints of
\* every step replaced
Redescribed(gd) ==
    [ si \in 1..Len(gd) |->
        [ gd[si] EXCEPT !.steps =
            [ i \in 1..Len(gd[si].steps) |->
                [ gd[si].steps[i] EXCEPT !.description = 0,
                                         !.completion_criteria = 0,
                                         !.assistance_hints = 0 ] ] ] ]

\* C19: get_section_overview returns the same for two guides that differ
\* only in the description, the completion criteria or the hints of their
\* steps, and no entry of the overview has a description.
C19_OverviewHidesDescriptions ==
    [][ \A s \in SessionIds, section_id \in RequestedSections :
          ( /\ last'.operation = "get_section_overview"
            /\ GetSectionOverview(s, section_id) ) =>
              /\ \E r \in { get_section_overview(Redescribed(guide_data),
                                                  sessions[s], section_id) } :
                    /\ last'.outcome = r.outcome
                    /\ last'.step_overview = r.step_overview
                    /\ last'.total_estimated_minutes = r.total_estimated_minutes
              /\ \A i \in 1..Len(last'.step_overview) :
                    "description" \notin DOMAIN last'.step_overview[i] ]_vars

\* the overview of a section with a blocked step and its alternative was
\* returned
C19_Witness ==
    /\ last.operation = "get_section_overview"
    /\ \E i, j \in 1..Len(last.step_overview) :
          /\ last.step_overview[i].is_blocked
          /\ last.step_overview[j].is_alternative

\* C20: in the overview a step is flagged completed exactly when it is a
\* step of the active sequence whose identifier is before the pointer,
\* current exactly when its identifier is the pointer, locked exactly when
\* neither; a blocked step is not completed for its position.
C20_OverviewFlags ==
    [][ \A s \in SessionIds, section_id \in RequestedSections :
          GetSectionOverview(s, section_id) =>
              \A i \in 1..Len(last'.step_overview) :
                  \E e \in { last'.step_overview[i] } :
                      /\ e.completed <=>
                             /\ ~e.is_blocked
                             /\ is_identifier_before(e.step_identifier, Pointer(s))
                      /\ e.current <=> e.step_identifier = Pointer(s)
                      /\ e.locked <=> (~e.completed /\ ~e.current) ]_vars

\* steps of the guide that are not blocked and whose identifier is before x
NonBlockedBefore(gd, x) ==
    Cardinality({ i \in 1..Len(Flatten(gd)) :
                    /\ Flatten(gd)[i].status # "blocked"
                    /\ is_identifier_before(Flatten(gd)[i].step_identifier, x) })

\* steps of the guide that are not blocked
NonBlockedCount(gd) ==
    Cardinality({ i \in 1..Len(Flatten(gd)) : Flatten(gd)[i].status # "blocked" })

\* C21: in every active view the completed count is the number of steps not
\* blocked whose identifier is before the step shown, the total is the
\* number of steps not blocked, and 0 <= completed < total; a new session
\* shows 0 of N and, after k advances and nothing else, k of N.
C21_ProgressCounts ==
    [][ \A s \in SessionIds :
          (last'.operation = "get_current_step" /\ GetCurrentStep(s)) =>
              \E view \in { get_current_step_only(guide_data, Pointer(s)) },
                 progress \in { get_current_step_progress(guide_data, Pointer(s)) } :
                  view.outcome = "active" =>
                      /\ progress.completed_steps =
                             NonBlockedBefore(guide_data, view.step_identifier)
                      /\ progress.total_steps = NonBlockedCount(guide_data)
                      /\ 0 <= progress.completed_steps
                      /\ progress.completed_steps < progress.total_steps
                      /\ (advances[s] >= 0 /\ advances[s] < TotalSteps) =>
                             /\ progress.completed_steps = advances[s]
                             /\ progress.total_steps = TotalSteps ]_vars

RECURSIVE DurationsAfter(_, _, _)
\* sum of the durations of those of the first n steps that are not blocked
\* and whose identifier is after x
DurationsAfter(steps, x, n) ==
    IF n = 0 THEN 0
    ELSE DurationsAfter(steps, x, n - 1)
         + (IF steps[n].status # "blocked" /\ is_identifier_before(x, steps[n].step_identifier)
            THEN steps[n].estimated_duration_minutes ELSE 0)

\* C22: the estimated remaining minutes of an active view are the sum of the
\* durations of the steps not blocked, of all sections, whose identifier is
\* after the identifier of the step shown; also when the step shown is the
\* alternative the call redirected to from a blocked step.
C22_RemainingMinutes ==
    [][ \A s \in SessionIds :
          (last'.operation = "get_current_step" /\ GetCurrentStep(s)) =>
              \E view \in { get_current_step_only(guide_data, Pointer(s)) },
                 progress \in { get_current_step_progress(guide_data, Pointer(s)) } :
                  view.outcome = "active" =>
                      progress.estimated_time_remaining =
                          DurationsAfter(Flatten(guide_data), view.step_identifier,
                                         Len(Flatten(guide_data))) ]_vars

\* "0", "1", "1a", "1b", "2", "2a", "10", "10a"
SortedList ==
    << <<0>>, <<1>>, <<1, 10>>, <<1, 11>>, <<2>>, <<2, 10>>, <<1, 0>>, <<1, 0, 10>> >>

\* C23: is_identifier_before is a strict total order on valid identifiers:
\* no identifier is before itself, before is transitive, of two distinct
\* identifiers (numerals with leading zeros such as "01" and "1" included)
\* exactly one is before the other; and the unsorted list sorts to
\* 0, 1, 1a, 1b, 2, 2a, 10, 10a.
C23_StrictTotalOrder ==
    /\ applied.function = "is_identifier_before" =>
           \E ids \in { applied.ids }, before \in { applied.result } :
               \A i, j, k \in { n \in 1..Len(ids) : validate_step_identifier(ids[n]) } :
                   /\ ~before[i][i]
                   /\ (before[i][j] /\ before[j][k]) => before[i][k]
                   /\ ids[i] # ids[j] => (before[i][j] <=> ~before[j][i])
    /\ (applied.function = "sort_step_identifiers" /\ applied.ids = UnsortedList) =>
           applied.result = SortedList

\* C24: for any list ids and any element x of ids that is not the last of the
\* sorted list, the previous of the next of x is x; for any x that is not the
\* first, the next of the previous of x is x.
C24_NextAndPreviousAreInverses ==
    \E sorted_ids \in { sort_step_identifiers(applied.ids) } :
        /\ (applied.function = "previous_of_next"
               /\ applied.x # sorted_ids[Len(sorted_ids)]) => applied.result = applied.x
        /\ (applied.function = "next_of_previous"
               /\ applied.x # sorted_ids[1]) => applied.result = applied.x

\* C25: when the generator proposes more than 6 alternatives, the report
\* creates exactly 6 alternative steps, from the first six proposals in
\* order, with the suffixes a to f; no step is made of a later proposal; the
\* record appended to the history lists exactly those 6 identifiers.
C25_SixAlternativesAtMost ==
    [][ \A s \in SessionIds, p \in Problems, answer \in LongAnswers :
          ( /\ last'.operation = "report_blocked"
            /\ Len(answer.alternative_steps) > 6
            /\ ReportBlockedWithin(s, p, answer, MaxLongAnswers) ) =>
              \E before \in { Flatten(guide_data) }, after \in { Flatten(guide_data') },
                 b \in { Pointer(s) } :
                  /\ Len(after) = Len(before) + 6
                  /\ \E i \in 1..Len(before) :
                        /\ before[i].step_identifier = b
                        /\ \A j \in 1..6 :
                              /\ after[i + j].step_identifier = b \o <<letters[j]>>
                              /\ after[i + j].status = "alternative"
                              /\ after[i + j].title = answer.alternative_steps[j].title
                  /\ \A n \in 1..Len(after), j \in 7..Len(answer.alternative_steps) :
                        after[n].title # answer.alternative_steps[j].title
                  /\ Len(adaptation_history') = Len(adaptation_history) + 1
                  /\ adaptation_history'[Len(adaptation_history')].alternatives_added
                         = LetterIdentifiers(b, 6) ]_vars

\* a report whose generator proposed more than 6 alternatives was adapted
C25_Witness ==
    /\ last.operation = "report_blocked"
    /\ last.outcome = "adapted"
    /\ adaptation_history # <<>>
    /\ Len(adaptation_history[Len(adaptation_history)].alternatives_added) = 6

\* C26: no operation removes a step from the guide, and a step that is
\* blocked stays blocked: every step of the guide before a step of the system
\* is a step of the guide after it, blocked if it was blocked.
C26_StepsAndBlockedMarksKept ==
    [][ \E before \in { Flatten(guide_data) }, after \in { Flatten(guide_data') } :
          /\ Len(after) >= Len(before)
          /\ \A i \in 1..Len(before) :
                \E j \in 1..Len(after) :
                    /\ after[j].step_identifier = before[i].step_identifier
                    /\ after[j].title = before[i].title
                    /\ before[i].status = "blocked" => after[j].status = "blocked" ]_vars

\* C27: the adaptation history is append-only: a step of the system leaves
\* every record where and what it was, and a report whose guide write
\* commits appends one record, of the blocked identifier and of the
\* identifiers created, also when another report on the guide is in flight.
C27_HistoryAppendOnly ==
    [][ /\ \A n \in 1..Len(adaptation_history) :
              /\ n <= Len(adaptation_history')
              /\ adaptation_history'[n] = adaptation_history[n]
        /\ \A s \in SessionIds, answer \in GeneratorAnswers :
              GeneratorReturns(s, answer) =>
                  /\ Len(adaptation_history') = Len(adaptation_history) + 1
                  /\ \E rec \in { adaptation_history'[Len(adaptation_history')] } :
                        /\ rec.blocked_step_identifier = requests[s].current_step_identifier
                        /\ rec.alternatives_added =
                               LetterIdentifiers(requests[s].current_step_identifier,
                                                 Len(answer.alternative_steps)) ]_vars

\* the changes of step status the specification lists
StepStatusChanges == { <<"active", "completed">>, <<"active", "blocked">> }

\* C28: the status of a step changes only from active to completed, by
\* advance, or from active to blocked, by an adaptation; after advance has
\* moved the pointer past a step, the status of that step is completed.
C28_StepStatusTransitions ==
    [][ /\ \E before \in { Flatten(guide_data) }, after \in { Flatten(guide_data') } :
              \A i \in 1..Len(before), j \in 1..Len(after) :
                  ( /\ after[j].step_identifier = before[i].step_identifier
                    /\ after[j].status # before[i].status ) =>
                      <<before[i].status, after[j].status>> \in StepStatusChanges
        /\ \A s \in SessionIds :
              ( /\ Advance(s)
                /\ is_identifier_before(Pointer(s), sessions'[s].current_step_identifier) ) =>
                  \E passed \in { _find_step_by_identifier(guide_data', Pointer(s)) } :
                      passed # <<>> /\ passed[1].status = "completed" ]_vars

\* C29: a status update changes only the status and the timestamps of the
\* session: the pointer, the guide and its history are what they were, and
\* the progress of the view is what it was before, so that a pause followed
\* by a resume shows the progress shown before the pause.
C29_StatusUpdateKeepsProgress ==
    [][ \A s \in SessionIds :
          ( /\ last'.operation = "update_session"
            /\ \E to_status \in SessionStatuses : UpdateSession(s, to_status) ) =>
              /\ sessions'[s] = [ sessions[s] EXCEPT
                                    !.status = sessions'[s].status,
                                    !.completed_at = sessions'[s].completed_at ]
              /\ UNCHANGED <<guide_data, adaptation_history>>
              /\ get_current_step_progress(guide_data', sessions'[s].current_step_identifier)
                     = get_current_step_progress(guide_data, Pointer(s)) ]_vars

\* a session that had left the first step was resumed or restarted
C29_Witness ==
    /\ last.operation = "update_session"
    /\ last.outcome = "updated"
    /\ sessions[last.session_id].status = "active"
    /\ Pointer(last.session_id) # StrOf(0)

\* C30: a session whose status is completed has its completion timestamp
\* set, whether advance at the last step or a status update completed it.
C30_CompletedHasTimestamp ==
    \A s \in SessionIds :
        sessions[s].status = "completed" => sessions[s].completed_at >= 1

\* a status update completed a session that was not on the last step
C30_Witness ==
    /\ last.operation = "update_session"
    /\ last.outcome = "updated"
    /\ sessions[last.session_id].status = "completed"
    /\ Pointer(last.session_id) # StrOf(TotalSteps - 1)

\* the positions of x in a list
PositionsOf(x, list) == { i \in 1..Len(list) : list[i] = x }

\* C31: get_next_identifier returns None when current is not in the list and
\* when current is the last element of the sorted list, and otherwise the
\* element right after current in the sorted list; get_previous_identifier
\* returns None when current is not in the list and when it is the first
\* element, and otherwise the element right before it; no list makes either
\* fail.  (Of a current that the list holds more than once, any of its
\* positions is taken as its place.)
C31_AdjacentOrNone ==
    \E sorted_ids \in { sort_step_identifiers(applied.ids) } :
        \E at \in { PositionsOf(applied.x, sorted_ids) }, last_position \in { Len(sorted_ids) } :
            /\ applied.function = "get_next_identifier" =>
                   IF at = {} \/ at = { last_position }
                   THEN applied.result = NoId
                   ELSE \/ \E i \in at \ { last_position } :
                             applied.result = sorted_ids[i + 1]
                        \/ last_position \in at /\ applied.result = NoId
            /\ applied.function = "get_previous_identifier" =>
                   IF at = {} \/ at = { 1 }
                   THEN applied.result = NoId
                   ELSE \/ \E i \in at \ { 1 } : applied.result = sorted_ids[i - 1]
                        \/ 1 \in at /\ applied.result = NoId

\* the next was asked of an identifier that a list of several does not hold
C31_Witness ==
    /\ applied.function = "get_next_identifier"
    /\ Len(applied.ids) >= 2
    /\ PositionsOf(applied.x, applied.ids) = {}
    /\ applied.result = NoId

\* C32: an identifier that does not match the pattern never makes the
\* comparison fail and sorts after every valid identifier, whatever the
\* numeric value of the valid one, 999999 and above included.
C32_MalformedSortsLast ==
    applied.function = "is_identifier_before" =>
        \E ids \in { applied.ids }, before \in { applied.result } :
            \A i, j \in 1..Len(ids) :
                (~validate_step_identifier(ids[i]) /\ validate_step_identifier(ids[j])) =>
                    before[j][i] /\ ~before[i][j]

\* the list xs in reverse order
Reverse(xs) == [ i \in 1..Len(xs) |-> xs[Len(xs) + 1 - i] ]

\* the guide with the step list of every section in reverse order: the same
\* steps in the same sections
Reordered(gd) == [ si \in 1..Len(gd) |-> [ gd[si] EXCEPT !.steps = Reverse(@) ] ]

\* C33: the position of a step in the list of its section is cosmetic: on
\* two guides of the same steps in the same sections, from the same session
\* row, get_current_step_only shows the same step with the same progress,
\* remaining minutes and next-section preview, and advance and go_back give
\* the same row and the same response.
C33_ListOrderIsCosmetic ==
    [][ \A s \in SessionIds :
          (last'.operation = "get_current_step" /\ GetCurrentStep(s)) =>
              \E gd \in { guide_data }, other \in { Reordered(guide_data) },
                 p \in { Pointer(s) } :
                  /\ get_current_step_only(other, p) = get_current_step_only(gd, p)
                  /\ get_current_step_progress(other, p) = get_current_step_progress(gd, p)
                  /\ get_current_step_preview(other, p) = get_current_step_preview(gd, p)
                  /\ advance_to_next_step(other, sessions[s])
                         = advance_to_next_step(gd, sessions[s])
                  /\ go_back_to_previous_step(other, sessions[s])
                         = go_back_to_previous_step(gd, sessions[s]) ]_vars

\* C34: advance_to_next_step completes a session only when no step that is
\* not blocked has an identifier greater than the pointer, wherever the
\* pointer rests: on a blocked step or on an identifier that the active
\* sequence does not have.
C34_CompletesOnlyAtLastStep ==
    [][ \A s \in SessionIds :
          ( /\ last'.operation = "advance"
            /\ sessions[s].status # "completed"
            /\ sessions'[s].status = "completed"
            /\ Advance(s) ) =>
              \E active \in { ActiveSequence(guide_data) } :
                  \A i \in 1..Len(active) :
                      ~is_identifier_before(Pointer(s), active[i]) ]_vars

\* C35: every go_back_to_previous_step that succeeds leaves the pointer on an
\* identifier strictly before the one it had, also when a blocked step with
\* alternatives lies between the pointer and the first step, so repeated
\* calls reach the first step.
C35_GoBackDecreasesPointer ==
    [][ \A s \in SessionIds :
          ( /\ last'.operation = "go_back"
            /\ last'.outcome = "active"
            /\ GoBack(s) ) =>
              is_identifier_before(sessions'[s].current_step_identifier, Pointer(s)) ]_vars

\* C36: get_current_step_only answers "completed" exactly when the status of
\* the session is completed: never for an active session, and never an
\* active step for a session that advance has completed.
C36_CompletedViewIffCompletedSession ==
    [][ \A s \in SessionIds :
          (last'.operation = "get_current_step" /\ GetCurrentStep(s)) =>
              (last'.outcome = "completed" <=> sessions[s].status = "completed") ]_vars

\* C37: in every reachable state, each alternative step names in
\* replaces_step_identifier a step of the guide that is blocked, and each
\* blocked step has at least one alternative step that replaces it.
C37_AlternativesAndBlockedStepsPaired ==
    \E all \in { Flatten(guide_data) } :
        \A i \in 1..Len(all) :
            /\ all[i].status = "alternative" =>
                   \E j \in 1..Len(all) :
                       /\ all[j].step_identifier = all[i].replaces_step_identifier
                       /\ all[j].status = "blocked"
            /\ all[i].status = "blocked" =>
                   \E j \in 1..Len(all) :
                       /\ all[j].status = "alternative"
                       /\ all[j].replaces_step_identifier = all[i].step_identifier

C39_AdvanceIncreasesPointer ==
    [][ \A s \in SessionIds :
          ( /\ last'.operation = "advance"
            /\ sessions[s].status = "active"
            /\ sessions'[s].status # "completed"
            /\ Advance(s) ) =>
              is_identifier_before(Pointer(s), sessions'[s].current_step_identifier) ]_vars

\* C40: get_current_step_only is idempotent: a second call right after the
\* first returns the same view (step shown, progress, remaining minutes,
\* navigation) and changes no state, also when the first call redirected
\* the pointer from a blocked step to its first alternative.
C40_GetCurrentStepIdempotent ==
    [][ \A s \in SessionIds :
          (last'.operation = "get_current_step" /\ GetCurrentStep(s)) =>
              \E before \in { Pointer(s) }, after \in { sessions'[s].current_step_identifier } :
                  /\ get_current_step_only(guide_data', after)
                         = get_current_step_only(guide_data, before)
                  /\ get_current_step_only(guide_data', after).outcome = "active" =>
                         /\ get_current_step_progress(guide_data', after)
                                = get_current_step_progress(guide_data, before)
                         /\ get_current_step_preview(guide_data', after)
                                = get_current_step_preview(guide_data, before) ]_vars

====
